---- MODULE Spec2Model ----
(***************************************************************************)
(* Model of pke/supervised.py: the four supervised keyphrase extraction    *)
(* pipelines Kea, WINGNUS, SEERLAB and SupTfIdf.                           *)
(*                                                                         *)
(* A pipeline object holds the sentences of one document, the candidates   *)
(* container, the instances container and the weights container.  Its      *)
(* three stage methods candidate_selection, feature_extraction and        *)
(* classify_candidates are the actions.  LoadFile and Candidate            *)
(* (pke/base.py: ngram_selection, candidate_filtering, the containers) are *)
(* imported by supervised.py; they are modelled from the specification.    *)
(* MinMaxScaler, predict_proba and open/pickle.load belong to libraries;   *)
(* they are modelled by their documented behaviour.                        *)
(*                                                                         *)
(* Strings cannot be taken apart in TLA+, so a word is a string with       *)
(* tables for lower(), isupper() and len(); a candidate key, which the     *)
(* code builds as ' '.join(stems), is the tuple of stems (the join is      *)
(* one-to-one on stems without blanks).  Floats are exact rationals        *)
(* <<numerator, denominator>>; log2 is a three-decimal fixed-point table.  *)
(***************************************************************************)
EXTENDS Integers, Sequences, FiniteSets, TLC

VARIABLES
    variant,        \* the class of the pipeline object
    sentences,      \* self.sentences: the document
    candidates,     \* self.candidates: key -> Candidate
    instances,      \* self.instances: key -> feature vector
    weights,        \* self.weights: key -> score
    last,           \* the last stage call: its name, arguments and outcome
    stage,          \* position in Created -> CandidatesSelected -> FeaturesExtracted -> Scored
    runs,           \* number of candidate_selection calls so far
    ncalls,         \* number of stage calls so far
    pruned,         \* SEERLAB: the candidates left by the frequency pruning of the last call
    scanned,        \* SEERLAB: the spans the gazetteer scan of the last call added
    rawInstances    \* the instances container as handed to the last feature_scaling

vars == <<variant, sentences, candidates, instances, weights, last, stage,
          runs, ncalls, pruned, scanned, rawInstances>>

(***************************************************************************)
(* Bounds of the model.                                                    *)
(***************************************************************************)
MaxTokens == 2       \* tokens of a document of the pipeline specification
MaxSelTokens == 5    \* tokens of a one-sentence document of the selection specification
MaxRepeat == 3       \* tokens of a document repeating one word
MaxSents == 2        \* sentences of a document
MaxCalls == 5        \* stage calls on one pipeline object
MaxRuns == 2         \* candidate_selection calls on one pipeline object
MaxK == 1            \* largest mf_unigrams / mf_non_unigrams tried
MaxDf == 2           \* largest document frequency of a table entry

Min(a, b) == IF a < b THEN a ELSE b

RECURSIVE Flatten(_)
Flatten(ss) == IF ss = <<>> THEN <<>> ELSE Head(ss) \o Flatten(Tail(ss))

RECURSIVE SumSeq(_)
SumSeq(s) == IF s = <<>> THEN 0 ELSE Head(s) + SumSeq(Tail(s))

(***************************************************************************)
(* The document model (external): a sentence is a sequence of tokens, each *)
(* with its surface word, its stem and its POS tag.                        *)
(***************************************************************************)
Tok(w, s, p) == [word |-> w, stem |-> s, pos |-> p]

Vocab == { Tok("Of", "of", "IN"), Tok("NASA", "nasa", "NNP"), Tok("X", "x", "JJ"),
           Tok("model", "model", "NN"), Tok("models", "model", "VBZ") }

\* str.lower() of a word
Lower(w) == CASE w = "Of" -> "of" [] w = "NASA" -> "nasa" [] w = "X" -> "x" [] OTHER -> w

\* the cased characters of a word: "upper" (some, all uppercase),
\* "haslower" (a lowercase one), "none" (no cased character)
CaseClass(w) == CASE w \in {"NASA", "X"} -> "upper" [] w = "," -> "none"
                 [] OTHER -> "haslower"

\* len() of a word
NChars(w) == CASE w = "Of" -> 2 [] w = "NASA" -> 4 [] w = "model" -> 5
               [] w = "models" -> 6 [] OTHER -> 1

\* stopwords.words('english'), restricted to the lowercased vocabulary
StopWords == {"of", "the"}

\* list(string.punctuation) + the bracket placeholders
Punctuation == {",", ".", "-lrb-", "-rrb-", "-lcb-", "-rcb-", "-lsb-", "-rsb-"}

words(sentence) == [x \in 1..Len(sentence) |-> sentence[x].word]
stems(sentence) == [x \in 1..Len(sentence) |-> sentence[x].stem]
pos(sentence) == [x \in 1..Len(sentence) |-> sentence[x].pos]

\* Python's seq[j:k]: 0-based, k exclusive, clamped to the sequence
Slice(seq, j, k) == SubSeq(seq, j + 1, Min(k, Len(seq)))

SentsUpTo(n) == UNION {[1..m -> Vocab] : m \in 1..n}

TotalLen(doc) == SumSeq([x \in 1..Len(doc) |-> Len(doc[x])])

RECURSIVE DocsOf(_, _)
DocsOf(nsent, ntok) ==
    IF nsent = 0 THEN {<<>>}
    ELSE LET shorter == DocsOf(nsent - 1, ntok)
         IN shorter \cup
            { Append(d, s) : <<d, s>> \in
                { ds \in shorter \X SentsUpTo(ntok) :
                    /\ Len(ds[1]) = nsent - 1
                    /\ TotalLen(ds[1]) + Len(ds[2]) <= ntok } }

\* the documents of the pipeline specification
\* the documents of the pipeline specification: every short document, and
\* one sentence repeating one word
Docs ==
    DocsOf(MaxSents, MaxTokens)
        \cup { <<[x \in 1..n |-> t]>> : t \in Vocab, n \in 1..MaxRepeat }

\* the documents of the selection specification: one long sentence, or
\* several sentences of a few tokens
SelDocs == DocsOf(1, MaxSelTokens) \cup DocsOf(MaxSents, MaxTokens + 1)

\* sum([s.length for s in self.sentences[0:i]]), i 0-based
shift(doc, i) == SumSeq([x \in 1..i |-> Len(doc[x])])

(***************************************************************************)
(* Candidate (pke/base.py) and the candidates container, a                 *)
(* defaultdict(Candidate): a key is created with empty lists on first use. *)
(***************************************************************************)
Candidate == [surface_forms |-> <<>>, offsets |-> <<>>, pos_patterns |-> <<>>,
              lexical_form |-> <<>>]

NoCandidates == <<>>

Get(c, key) == IF key \in DOMAIN c THEN c[key] ELSE Candidate

Put(c, key, v) == [x \in DOMAIN c \cup {key} |-> IF x = key THEN v ELSE c[x]]

Del(c, keys) == [x \in DOMAIN c \ keys |-> c[x]]

\* one occurrence appended to the candidate of its key
add_candidate(c, sentence, j, k, offset) ==
    LET key == Slice(stems(sentence), j, k)
        v == Get(c, key)
    IN Put(c, key,
           [surface_forms |-> Append(v.surface_forms, Slice(words(sentence), j, k)),
            offsets |-> Append(v.offsets, offset),
            pos_patterns |-> Append(v.pos_patterns, Slice(pos(sentence), j, k)),
            lexical_form |-> key])

\* the spans ngram_selection visits, in its order: sentence i, start j, end k
NgramSpans(doc, n) ==
    Flatten([i \in 1..Len(doc) |->
        LET len == Len(doc[i])
            skip == Min(n, len)
        IN Flatten([jj \in 1..len |->
               [kk \in 1..(Min(jj + skip, len + 1) - jj) |->
                   [i |-> i, j |-> jj - 1, k |-> jj - 1 + kk]]])])

RECURSIVE AddSpans(_, _, _)
AddSpans(c, doc, spans) ==
    IF spans = <<>> THEN c
    ELSE LET sp == Head(spans)
         IN AddSpans(add_candidate(c, doc[sp.i], sp.j, sp.k, shift(doc, sp.i - 1) + sp.j),
                     doc, Tail(spans))

\* LoadFile.ngram_selection(n): the candidates of a fresh selection
ngram_selection(doc, n) == AddSpans(NoCandidates, doc, NgramSpans(doc, n))

\* LoadFile.candidate_filtering(stoplist): drop a candidate when a token of
\* its first surface form, lowercased, is in the list
candidate_filtering(c, stoplist) ==
    Del(c, {key \in DOMAIN c :
              \E x \in DOMAIN c[key].surface_forms[1] :
                  Lower(c[key].surface_forms[1][x]) \in stoplist})

(***************************************************************************)
(* Kea.candidate_selection and SupTfIdf.candidate_selection                *)
(***************************************************************************)
\* Kea selecting 1-4 grams
KeaMaxN_four == 3 + 1

KeaMaxN == 3
SupTfIdfMaxN == 3
WingnusMaxN == 4
SeerlabMaxN == 4

\* the loop of Kea.candidate_selection: delete a candidate whose first
\* surface form, lowercased, starts or ends with a stopword
KeaStopwordFilter(c) ==
    Del(c, {key \in DOMAIN c :
              LET ws == [x \in DOMAIN c[key].surface_forms[1] |->
                            Lower(c[key].surface_forms[1][x])]
              IN ws[1] \in StopWords \/ ws[Len(ws)] \in StopWords})

KeaSelect(doc) ==
    KeaStopwordFilter(candidate_filtering(ngram_selection(doc, KeaMaxN), Punctuation))

SupTfIdfSelect(doc) ==
    candidate_filtering(ngram_selection(doc, SupTfIdfMaxN), Punctuation)

(***************************************************************************)
(* WINGNUS.candidate_selection                                             *)
(***************************************************************************)
\* u[:2] of a POS tag
Trunc2(tag) == CASE tag = "NNP" -> "NN" [] tag = "NNS" -> "NN" [] tag = "VBZ" -> "VB"
                 [] tag = "JJR" -> "JJ" [] OTHER -> tag

IsMod(t) == t \in {"JJ", "NN"}

\* re.search('^((JJ|NN) ){,2}NN$', ' '.join(tags))
MatchNP(tags) ==
    /\ Len(tags) \in 1..3
    /\ tags[Len(tags)] = "NN"
    /\ \A x \in 1..(Len(tags) - 1) : IsMod(tags[x])

\* re.search('^((JJ|NN) )?NN IN ((JJ|NN) )?NN$', ' '.join(tags))
MatchNP_IN_NP(tags) ==
    \E a \in 0..1, b \in 0..1 :
        /\ Len(tags) = a + b + 3
        /\ \A x \in 1..a : IsMod(tags[x])
        /\ tags[a + 1] = "NN"
        /\ tags[a + 2] = "IN"
        /\ \A x \in (a + 3)..(a + 2 + b) : IsMod(tags[x])
        /\ tags[a + b + 3] = "NN"

\* valid_surface_forms without the test of the patterns
valid_surface_forms_all(v) == [x \in 1..Len(v.pos_patterns) |-> x]

\* the indices valid_surface_forms collects, in increasing order
valid_surface_forms(v) ==
    SelectSeq([x \in 1..Len(v.pos_patterns) |-> x],
              LAMBDA x : LET pattern == [y \in 1..Len(v.pos_patterns[x]) |->
                                            Trunc2(v.pos_patterns[x][y])]
                         IN MatchNP(pattern) \/ MatchNP_IN_NP(pattern))

\* the update with the offsets list left as it was
WingnusRealign_keepOffsets(v, valid) ==
    [surface_forms |-> [x \in 1..Len(valid) |-> v.surface_forms[valid[x]]],
     offsets |-> v.offsets,
     pos_patterns |-> [x \in 1..Len(valid) |-> v.pos_patterns[valid[x]]],
     lexical_form |-> v.lexical_form]

\* the update of a candidate that keeps some occurrence
WingnusRealign(v, valid) ==
    [surface_forms |-> [x \in 1..Len(valid) |-> v.surface_forms[valid[x]]],
     offsets |-> [x \in 1..Len(valid) |-> v.offsets[valid[x]]],
     pos_patterns |-> [x \in 1..Len(valid) |-> v.pos_patterns[valid[x]]],
     lexical_form |-> v.lexical_form]

WingnusPatternFilter(c) ==
    LET keep == {key \in DOMAIN c : valid_surface_forms(c[key]) # <<>>}
    IN [key \in keep |-> WingnusRealign(c[key], valid_surface_forms(c[key]))]

WingnusSelect(doc) ==
    WingnusPatternFilter(candidate_filtering(ngram_selection(doc, WingnusMaxN), Punctuation))

(***************************************************************************)
(* SEERLAB.candidate_selection                                             *)
(***************************************************************************)
\* ' '.join(surface_form).isupper() and len(' '.join(surface_form)) > 1
IsAcronymForm(surface_form) ==
    /\ \A x \in DOMAIN surface_form : CaseClass(surface_form[x]) # "haslower"
    /\ \E x \in DOMAIN surface_form : CaseClass(surface_form[x]) = "upper"
    /\ SumSeq([x \in DOMAIN surface_form |-> NChars(surface_form[x])])
           + (Len(surface_form) - 1) > 1

\* the order of Python's string comparison on the stems of the vocabulary
StemRank(s) == CASE s = "," -> 0 [] s = "model" -> 1 [] s = "nasa" -> 2
                 [] s = "of" -> 3 [] s = "x" -> 4 [] OTHER -> 5

\* key a < key b as strings (a blank sorts before every letter)
RECURSIVE KeyLess(_, _)
KeyLess(a, b) ==
    IF b = <<>> THEN FALSE
    ELSE IF a = <<>> THEN TRUE
    ELSE IF Head(a) = Head(b) THEN KeyLess(Tail(a), Tail(b))
    ELSE StemRank(Head(a)) < StemRank(Head(b))

\* the order of sorted(...) without reverse=True
SortsBefore_ascending(c, p, q) ==
    \/ Len(c[p].surface_forms) < Len(c[q].surface_forms)
    \/ /\ Len(c[p].surface_forms) = Len(c[q].surface_forms)
       /\ KeyLess(p, q)

\* (count, key) pair p sorts before pair q in sorted(..., reverse=True)
SortsBefore(c, p, q) ==
    \/ Len(c[p].surface_forms) > Len(c[q].surface_forms)
    \/ /\ Len(c[p].surface_forms) = Len(c[q].surface_forms)
       /\ KeyLess(q, p)

\* the keys of sorted(group, reverse=True)[:min(len(group), mf)]
MostFrequent(c, group, mf) ==
    {key \in group :
        Cardinality({other \in group : SortsBefore(c, other, key)})
            < Min(Cardinality(group), mf)}

unigrams(c) == {key \in DOMAIN c : Len(c[key].lexical_form) = 1}
non_unigrams(c) == {key \in DOMAIN c : Len(c[key].lexical_form) # 1}
acronyms(c) == {key \in DOMAIN c : IsAcronymForm(c[key].surface_forms[1])}

valid_candidates(c, mf_unigrams, mf_non_unigrams) ==
    acronyms(c) \cup MostFrequent(c, unigrams(c), mf_unigrams)
                \cup MostFrequent(c, non_unigrams(c), mf_non_unigrams)

\* the frequency pruning: delete every candidate not in valid_candidates
SeerlabPrune(c, mf_unigrams, mf_non_unigrams) ==
    Del(c, DOMAIN c \ valid_candidates(c, mf_unigrams, mf_non_unigrams))

\* the four appends of a gazetteer match; the key is not in the container,
\* so the defaultdict creates its candidate
dblp_add(c, sentence, j, k, offset) ==
    LET key == Slice(stems(sentence), j, k)
        v == Get(c, key)
    IN Put(c, key,
           [surface_forms |-> Append(v.surface_forms, Slice(words(sentence), j, k)),
            offsets |-> Append(v.offsets, offset),
            pos_patterns |-> Append(v.pos_patterns, Slice(pos(sentence), j, k)),
            lexical_form |-> key])

\* skip = min(4, sentence.length)
scan_skip(length) == Min(4, length)

\* range(min(j+skip, sentence.length+1), j, -1): the ends tried, longest first
scan_ends(j, length) ==
    LET top == Min(j + scan_skip(length), length + 1)
    IN [x \in 1..(top - j) |-> top + 1 - x]

\* the break without the assignment to j
scan_jump_stay(j, k) == j

\* j = k - 1 before the break
scan_jump(j, k) == k - 1

\* the test without the look at the container
scan_match_any(c, dblp, key) == key \in dblp

\* if key in dblp_candidates and key not in self.candidates
scan_match(c, dblp, key) == key \in dblp /\ key \notin DOMAIN c

\* the while loop over one sentence, from position j; st.c is the container,
\* st.added the matched spans so far, each with the keys tracked at the match
RECURSIVE ScanSentence(_, _, _, _, _)
ScanSentence(st, doc, i, j, dblp) ==
    LET sentence == doc[i]
        length == Len(sentence)
        ends == scan_ends(j, length)
        hits == SelectSeq(ends, LAMBDA k :
                    scan_match(st.c, dblp, Slice(stems(sentence), j, k)))
    IN IF ~(j < length) THEN st
       ELSE IF hits = <<>> THEN ScanSentence(st, doc, i, j + 1, dblp)
       ELSE LET k == Head(hits)
            IN ScanSentence(
                   [c |-> dblp_add(st.c, sentence, j, k, shift(doc, i - 1) + j),
                    added |-> Append(st.added,
                                     [i |-> i, j |-> j, k |-> k,
                                      tracked |-> DOMAIN st.c])],
                   doc, i, scan_jump(j, k) + 1, dblp)

RECURSIVE ScanSentences(_, _, _, _)
ScanSentences(st, doc, i, dblp) ==
    IF i > Len(doc) THEN st
    ELSE ScanSentences(ScanSentence(st, doc, i, 0, dblp), doc, i + 1, dblp)

GazetteerScan(c, doc, dblp) == ScanSentences([c |-> c, added |-> <<>>], doc, 1, dblp)

SeerlabNgrams(doc) ==
    candidate_filtering(ngram_selection(doc, SeerlabMaxN), StopWords \cup Punctuation)

\* the gazetteers and the parameters tried
GazPool == {<<"model">>, <<"nasa", "model">>}
Gazetteers == SUBSET GazPool

(***************************************************************************)
(* Numbers: a float is the exact rational <<numerator, denominator>>,      *)
(* denominator > 0, in lowest terms.                                       *)
(***************************************************************************)
RECURSIVE GCD(_, _)
GCD(a, b) == IF b = 0 THEN a ELSE GCD(b, a % b)

Abs(a) == IF a < 0 THEN -a ELSE a

Rat(n, d) ==
    LET g == GCD(Abs(n), Abs(d))
        sgn == IF d < 0 THEN -1 ELSE 1
    IN IF n = 0 THEN <<0, 1>> ELSE <<sgn * (n \div g), sgn * (d \div g)>>

RAdd(x, y) == Rat(x[1] * y[2] + y[1] * x[2], x[2] * y[2])
RSub(x, y) == Rat(x[1] * y[2] - y[1] * x[2], x[2] * y[2])
RMul(x, y) == Rat(x[1] * y[1], x[2] * y[2])
RDiv(x, y) == Rat(x[1] * y[2], x[2] * y[1])
RLess(x, y) == x[1] * y[2] < y[1] * x[2]
RLeq(x, y) == x[1] * y[2] <= y[1] * x[2]

RMin(S) == CHOOSE x \in S : \A y \in S : RLeq(x, y)
RMax(S) == CHOOSE x \in S : \A y \in S : RLeq(y, x)

(***************************************************************************)
(* feature_extraction                                                      *)
(***************************************************************************)
\* N, the number of documents: the default of every feature_extraction
DefaultN == 144

\* the document frequency tables tried: df.get(k, 0) of a missing key is 0
DfTables ==
    { <<>>,
      [key \in {<<"model">>, <<"nasa">>} |-> IF key = <<"model">> THEN 1 ELSE MaxDf] }

df_get(df, key) == IF key \in DOMAIN df THEN df[key] ELSE 0

\* the training decrement without the test candidate_df != 1
candidate_df_always_decrement(df, key, training) ==
    LET smoothed == 1 + df_get(df, key)
    IN IF training THEN smoothed - 1 ELSE smoothed

\* candidate_df = 1 + df.get(k, 0); if training and candidate_df != 1: candidate_df -= 1
candidate_df(df, key, training) ==
    LET smoothed == 1 + df_get(df, key)
    IN IF training /\ smoothed # 1 THEN smoothed - 1 ELSE smoothed

\* math.log(float(N+1) / float(candidate_df), 2) for N = 144, to three decimals
idf(N, cdf) ==
    CASE cdf = 1 -> Rat(7180, 1000)
      [] cdf = 2 -> Rat(6180, 1000)
      [] cdf = 3 -> Rat(5595, 1000)
      [] cdf = 4 -> Rat(5180, 1000)
      [] OTHER -> Rat(4858, 1000)

\* maximum_offset = float(sum([s.length for s in self.sentences]))
maximum_offset(doc) == TotalLen(doc)

tf_idf(v, df, key, N, training) ==
    RMul(Rat(Len(v.surface_forms), 1), idf(N, candidate_df(df, key, training)))

\* is_acronym: 1 when some surface form is an acronym form
is_acronym(v) ==
    IF \E x \in DOMAIN v.surface_forms : IsAcronymForm(v.surface_forms[x]) THEN 1 ELSE 0

KeaFeatures(v, doc, df, key, N, training) ==
    << tf_idf(v, df, key, N, training), Rat(v.offsets[1], maximum_offset(doc)) >>

WingnusFeatures(v, doc, df, key, N, training) ==
    << tf_idf(v, df, key, N, training), Rat(v.offsets[1], maximum_offset(doc)),
       Rat(Len(v.lexical_form), 1) >>

SeerlabFeatures(v, doc, df, key, N, training) ==
    << Rat(Len(v.lexical_form), 1), Rat(is_acronym(v), 1),
       Rat(Len(v.surface_forms), 1), Rat(candidate_df(df, key, training), 1),
       tf_idf(v, df, key, N, training) >>

SupTfIdfFeatures(v, doc, df, key, N, training) ==
    << tf_idf(v, df, key, N, training) >>

Features(var, v, doc, df, key, N, training) ==
    CASE var = "Kea" -> KeaFeatures(v, doc, df, key, N, training)
      [] var = "WINGNUS" -> WingnusFeatures(v, doc, df, key, N, training)
      [] var = "SEERLAB" -> SeerlabFeatures(v, doc, df, key, N, training)
      [] var = "SupTfIdf" -> SupTfIdfFeatures(v, doc, df, key, N, training)

\* the loop adding the features to the instance a key already has
ExtractLoop_accumulate(var, inst, c, doc, df, N, training) ==
    [key \in DOMAIN inst \cup DOMAIN c |->
        IF key \notin DOMAIN c THEN inst[key]
        ELSE LET row == Features(var, c[key], doc, df, key, N, training)
             IN IF key \in DOMAIN inst
                THEN [col \in DOMAIN row |-> RAdd(inst[key][col], row[col])]
                ELSE row]

\* the loop over self.candidates: self.instances[k] = np.array([...])
ExtractLoop(var, inst, c, doc, df, N, training) ==
    [key \in DOMAIN inst \cup DOMAIN c |->
        IF key \in DOMAIN c THEN Features(var, c[key], doc, df, key, N, training)
        ELSE inst[key]]

\* MinMaxScaler().fit_transform(X) on a non-empty matrix X (a function from
\* row index to row): each column is mapped linearly so that its minimum is
\* 0 and its maximum 1; a column of zero range is divided by 1 instead
MinMaxScaler_fit_transform(X) ==
    LET rows == DOMAIN X
        width == Len(X[CHOOSE r \in rows : TRUE])
        lo(col) == RMin({X[r][col] : r \in rows})
        hi(col) == RMax({X[r][col] : r \in rows})
        span(col) == IF lo(col) = hi(col) THEN <<1, 1>> ELSE RSub(hi(col), lo(col))
    IN [r \in rows |-> [col \in 1..width |-> RDiv(RSub(X[r][col], lo(col)), span(col))]]

\* feature_scaling without the assignment of the scaled rows
feature_scaling_unassigned(inst) == inst

\* feature_scaling: candidates = self.instances.keys(); the rows of X in that
\* order; self.instances[candidate] = X[i].  The row index is the key itself.
feature_scaling(inst) ==
    LET X == [key \in DOMAIN inst |-> inst[key]]
        scaled == MinMaxScaler_fit_transform(X)
    IN [key \in DOMAIN inst |-> scaled[key]]

\* fit_transform and predict_proba reject a matrix without rows (ValueError)
RejectsEmpty(X) == DOMAIN X = {}

\* y[i][1] of clf.predict_proba(X): the score the loaded classifier gives a
\* row, left uninterpreted
predict_proba(row) == <<"P(1|x)", row>>

Scaled(var) == var \in {"Kea", "WINGNUS", "SupTfIdf"}

(***************************************************************************)
(* The pipeline object and its stage methods.                              *)
(***************************************************************************)
Variants == {"Kea", "WINGNUS", "SEERLAB", "SupTfIdf"}

\* the record of a stage call: its name and arguments, the exception it
\* raised, whether its predecessor stage had completed, and whether it
\* repeats the call before it
Call(op, raised, inOrder, args) ==
    [op |-> op, raised |-> raised, inOrder |-> inOrder, args |-> args,
     again |-> (last.op = op /\ last.args = args)]

\* __init__: LoadFile's containers are empty, self.instances = {}
InitObject ==
    /\ variant \in Variants
    /\ candidates = NoCandidates
    /\ instances = <<>>
    /\ weights = <<>>
    /\ last = [op |-> "__init__", raised |-> "none", inOrder |-> TRUE, args |-> <<>>,
               again |-> FALSE]
    /\ stage = "Created"
    /\ runs = 0
    /\ ncalls = 0
    /\ pruned = {}
    /\ scanned = <<>>
    /\ rawInstances = <<>>

Init == sentences \in Docs /\ InitObject

SelInit == sentences \in SelDocs /\ InitObject

Selected(args) ==
    /\ last' = Call("candidate_selection", "none", TRUE, args)
    /\ stage' = "CandidatesSelected"
    /\ runs' = runs + 1
    /\ ncalls' = ncalls + 1
    /\ UNCHANGED <<variant, sentences, instances, weights, rawInstances>>

KeaCandidateSelection ==
    /\ variant = "Kea"
    /\ candidates' = KeaSelect(sentences)
    /\ pruned' = {}
    /\ scanned' = <<>>
    /\ Selected(<<>>)

SupTfIdfCandidateSelection ==
    /\ variant = "SupTfIdf"
    /\ candidates' = SupTfIdfSelect(sentences)
    /\ pruned' = {}
    /\ scanned' = <<>>
    /\ Selected(<<>>)

WingnusCandidateSelection ==
    /\ variant = "WINGNUS"
    /\ candidates' = WingnusSelect(sentences)
    /\ pruned' = {}
    /\ scanned' = <<>>
    /\ Selected(<<>>)

SeerlabCandidateSelection ==
    /\ variant = "SEERLAB"
    /\ \E dblp \in Gazetteers, mf_unigrams \in 0..MaxK, mf_non_unigrams \in 0..MaxK :
          LET kept == SeerlabPrune(SeerlabNgrams(sentences), mf_unigrams, mf_non_unigrams)
              scan == GazetteerScan(kept, sentences, dblp)
          IN /\ candidates' = scan.c
             /\ pruned' = DOMAIN kept
             /\ scanned' = scan.added
             /\ Selected([dblp_candidates |-> dblp, mf_unigrams |-> mf_unigrams,
                          mf_non_unigrams |-> mf_non_unigrams])

candidate_selection ==
    /\ ncalls < MaxCalls
    /\ runs < MaxRuns
    /\ \/ KeaCandidateSelection
       \/ SupTfIdfCandidateSelection
       \/ WingnusCandidateSelection
       \/ SeerlabCandidateSelection

feature_extraction ==
    /\ ncalls < MaxCalls
    /\ \E df \in DfTables, training \in BOOLEAN :
          LET filled == ExtractLoop(variant, instances, candidates, sentences,
                                    df, DefaultN, training)
              fails == Scaled(variant) /\ RejectsEmpty(filled)
              inOrder == stage # "Created"
          IN /\ instances' = IF ~Scaled(variant) \/ fails THEN filled
                             ELSE feature_scaling(filled)
             /\ rawInstances' = IF Scaled(variant) THEN filled ELSE rawInstances
             /\ last' = Call("feature_extraction",
                             IF fails THEN "ValueError" ELSE "none", inOrder,
                             [df |-> df, N |-> DefaultN, training |-> training])
             /\ stage' = IF inOrder /\ ~fails THEN "FeaturesExtracted" ELSE stage
    /\ ncalls' = ncalls + 1
    /\ UNCHANGED <<variant, sentences, candidates, weights, runs, pruned, scanned>>

classify_candidates ==
    /\ ncalls < MaxCalls
    /\ LET fails == RejectsEmpty(instances)
           inOrder == stage \in {"FeaturesExtracted", "Scored"}
       IN /\ weights' = IF fails THEN weights
                        ELSE [key \in DOMAIN weights \cup DOMAIN instances |->
                                 IF key \in DOMAIN instances
                                 THEN predict_proba(instances[key])
                                 ELSE weights[key]]
          /\ last' = Call("classify_candidates",
                          IF fails THEN "ValueError" ELSE "none", inOrder, <<>>)
          /\ stage' = IF inOrder /\ ~fails THEN "Scored" ELSE stage
    /\ ncalls' = ncalls + 1
    /\ UNCHANGED <<variant, sentences, candidates, instances, runs, pruned, scanned,
                   rawInstances>>

Next == candidate_selection \/ feature_extraction \/ classify_candidates

Spec == Init /\ [][Next]_vars

\* the selection stage alone, on longer documents
SelNext == runs = 0 /\ candidate_selection

SelSpec == SelInit /\ [][SelNext]_vars

(***************************************************************************)
(* Properties.                                                             *)
(***************************************************************************)
AfterSelection == last.op = "candidate_selection"
AfterExtraction == last.op = "feature_extraction"
AfterClassification == last.op = "classify_candidates"

\* C1: a stage invoked before its predecessor (feature_extraction before
\* any candidate_selection, classify_candidates before a completed
\* feature_extraction) fails with a StateError; it never returns normally.
C1_OutOfOrderStateError ==
    (last.op \in {"feature_extraction", "classify_candidates"} /\ ~last.inOrder)
        => last.raised = "StateError"

\* C5: when candidate selection left no candidate, feature_extraction and
\* then classify_candidates return without an exception, and the weights
\* mapping is empty.
C5_EmptySelectionNoError ==
    (/\ runs >= 1
     /\ DOMAIN candidates = {}
     /\ last.op \in {"feature_extraction", "classify_candidates"}
     /\ last.inOrder)
        => /\ last.raised = "none"
           /\ AfterClassification => DOMAIN weights = {}

\* C6: once candidate_selection, feature_extraction and classify_candidates
\* have run in that order, the weights and the instances have exactly the
\* keys of the current candidates, whatever ran on the object before.
C6_KeysAreCurrentCandidates ==
    (AfterClassification /\ stage = "Scored")
        => /\ DOMAIN weights = DOMAIN candidates
           /\ DOMAIN instances = DOMAIN candidates

\* the first or the last token of a surface form is a stopword, whatever its case
StopwordAtBoundary(surface_form) ==
    \/ Lower(surface_form[1]) \in StopWords
    \/ Lower(surface_form[Len(surface_form)]) \in StopWords

\* C2: after candidate_selection of Kea and of SupTfIdf no candidate starts
\* or ends with a stopword (case-insensitively), and every generated
\* candidate whose boundary tokens are not stopwords is still there.
C2_NoStopwordBoundary ==
    (AfterSelection /\ variant \in {"Kea", "SupTfIdf"})
        => LET generated == candidate_filtering(ngram_selection(sentences, 3), Punctuation)
           IN /\ \A key \in DOMAIN candidates :
                    ~StopwordAtBoundary(candidates[key].surface_forms[1])
              /\ \A key \in DOMAIN generated :
                    ~StopwordAtBoundary(generated[key].surface_forms[1])
                        => key \in DOMAIN candidates

\* the tokens a scanned span covers: its end is clamped to the sentence
SpanEnd(a) == Min(a.k, Len(sentences[a.i]))
SpanKey(i, j, k) == Slice(stems(sentences[i]), j, k)

\* the spans the gazetteer scan added within one sentence do not overlap
ScanNonOverlapping ==
    \A x, y \in DOMAIN scanned :
        (x < y /\ scanned[x].i = scanned[y].i) => SpanEnd(scanned[x]) <= scanned[y].j

\* C3 as stated: the added spans never overlap, and no added span starts
\* inside a longer span of the sentence (within the 4-token window) whose
\* key is in the gazetteer, whatever the candidates tracked before.
C3_GreedyLongestAnyPrior ==
    (AfterSelection /\ variant = "SEERLAB")
        => /\ ScanNonOverlapping
           /\ \A x \in DOMAIN scanned :
                 LET a == scanned[x]
                 IN ~ \E j0 \in 0..(a.j - 1), k0 \in (a.j + 1)..Len(sentences[a.i]) :
                        /\ k0 - j0 <= 4
                        /\ k0 - j0 > SpanEnd(a) - a.j
                        /\ SpanKey(a.i, j0, k0) \in last.args.dblp_candidates

\* C3 amended: the added spans never overlap, and each added span is, at its
\* start position, the longest span of the window whose key is in the
\* gazetteer and not tracked at that moment.
C3_GreedyLongestUntracked ==
    (AfterSelection /\ variant = "SEERLAB")
        => /\ ScanNonOverlapping
           /\ \A x \in DOMAIN scanned :
                 LET a == scanned[x]
                     len == Len(sentences[a.i])
                 IN /\ SpanKey(a.i, a.j, a.k) \in last.args.dblp_candidates \ a.tracked
                    /\ \A k1 \in (a.k + 1)..Min(a.j + 4, len) :
                          SpanKey(a.i, a.j, k1) \notin last.args.dblp_candidates \ a.tracked

\* the scan added a span of two tokens or more, and a gazetteer key that is
\* not a candidate starts inside it
C3_Witness ==
    /\ AfterSelection /\ variant = "SEERLAB"
    /\ \E x \in DOMAIN scanned :
          LET a == scanned[x]
          IN \E j1 \in (a.j + 1)..(SpanEnd(a) - 1), k1 \in (a.j + 2)..SpanEnd(a) :
                /\ j1 < k1
                /\ SpanKey(a.i, j1, k1) \in last.args.dblp_candidates
                /\ SpanKey(a.i, j1, k1) \notin DOMAIN candidates

\* the sentence and the 0-based position of a document offset
SentenceOf(offset) ==
    CHOOSE i \in 1..Len(sentences) :
        shift(sentences, i - 1) <= offset /\ offset < shift(sentences, i)

\* occurrence x of candidate v is one span of the document: its offset lies
\* in a sentence, and its surface form, its POS pattern and the key are the
\* words, the tags and the stems of that span
AlignedOccurrence(key, v, x) ==
    /\ v.offsets[x] >= 0 /\ v.offsets[x] < TotalLen(sentences)
    /\ LET i == SentenceOf(v.offsets[x])
           j == v.offsets[x] - shift(sentences, i - 1)
           k == j + Len(key)
       IN /\ k <= Len(sentences[i])
          /\ v.surface_forms[x] = Slice(words(sentences[i]), j, k)
          /\ v.pos_patterns[x] = Slice(pos(sentences[i]), j, k)
          /\ key = Slice(stems(sentences[i]), j, k)

\* C4: after candidate_selection of any variant the three occurrence lists
\* of every candidate have the same length, and index x of each describes
\* the same occurrence.
C4_ParallelLists ==
    AfterSelection
        => \A key \in DOMAIN candidates :
              LET v == candidates[key]
              IN /\ Len(v.surface_forms) = Len(v.offsets)
                 /\ Len(v.offsets) = Len(v.pos_patterns)
                 /\ \A x \in 1..Len(v.offsets) : AlignedOccurrence(key, v, x)

\* WINGNUS kept a candidate and dropped one of its occurrences
C4_Witness ==
    /\ AfterSelection /\ variant = "WINGNUS"
    /\ \E key \in DOMAIN candidates :
          /\ Len(candidates[key].offsets) >= 1
          /\ Len(candidates[key].offsets)
                < Len(ngram_selection(sentences, 4)[key].offsets)
          /\ candidates[key].offsets[1] > 0

\* C9: after candidate_selection no candidate has more tokens than the
\* n-gram length of its variant: 3 for Kea and SupTfIdf, 4 for WINGNUS and
\* SEERLAB; a span of the gazetteer scan has at most 4 tokens and ends in
\* its sentence.
C9_MaxTokenLength ==
    AfterSelection
        => LET n == IF variant \in {"Kea", "SupTfIdf"} THEN 3 ELSE 4
           IN /\ \A key \in DOMAIN candidates :
                    /\ Len(key) <= n
                    /\ Len(candidates[key].lexical_form) <= n
                    /\ \A x \in DOMAIN candidates[key].surface_forms :
                          Len(candidates[key].surface_forms[x]) <= n
              /\ \A x \in DOMAIN scanned :
                    /\ scanned[x].k - scanned[x].j <= 4
                    /\ SpanEnd(scanned[x]) - scanned[x].j >= 1
                    /\ Len(candidates[SpanKey(scanned[x].i, scanned[x].j, scanned[x].k)]
                               .surface_forms[1]) = SpanEnd(scanned[x]) - scanned[x].j

\* a sentence longer than the n-gram length, a candidate of exactly that
\* length, and a scanned span that ends with its sentence
C9_Witness ==
    /\ AfterSelection /\ variant = "SEERLAB"
    /\ \E key \in DOMAIN candidates : Len(key) = 4
    /\ \E x \in DOMAIN scanned :
          /\ Len(sentences[scanned[x].i]) = 5
          /\ SpanEnd(scanned[x]) = 5

\* the candidates the frequency pruning of the last SEERLAB selection started from
BeforePruning == SeerlabNgrams(sentences)

Count(c, key) == Len(c[key].surface_forms)

\* the words of the vocabulary in capitals are NASA and X: a surface form is
\* fully uppercase and longer than one character when it is made of them
\* and is not the single word X
AllCapsLong(surface_form) ==
    /\ \A x \in DOMAIN surface_form : surface_form[x] \in {"NASA", "X"}
    /\ surface_form # <<"X">>

\* what the pruning must do to one group (the unigrams with limit
\* mf_unigrams, the others with mf_non_unigrams): the candidates certainly
\* among the limit most frequent are kept, as many as the limit allows are
\* kept, a kept candidate that is no acronym is among the limit most
\* frequent, there are at most limit of them, and none of them is less
\* frequent than a dropped candidate of the group
GroupPruned(c, group, limit) ==
    LET acr == {key \in DOMAIN c : AllCapsLong(c[key].surface_forms[1])}
        keptPlain == (group \cap pruned) \ acr
    IN /\ \A u \in group :
             Cardinality({o \in group \ {u} : Count(c, o) >= Count(c, u)}) < limit
                 => u \in pruned
       /\ Cardinality(group \cap pruned) >= Min(limit, Cardinality(group))
       /\ \A u \in keptPlain :
             Cardinality({o \in group : Count(c, o) > Count(c, u)}) < limit
       /\ Cardinality(keptPlain) <= limit
       /\ \A d \in group \ pruned, u \in keptPlain : Count(c, d) <= Count(c, u)

\* C10: the SEERLAB frequency pruning keeps exactly the mf_unigrams most
\* frequent unigrams, the mf_non_unigrams most frequent multi-word
\* candidates and every acronym.
C10_FrequencyPruning ==
    (AfterSelection /\ variant = "SEERLAB")
        => LET c == BeforePruning
           IN /\ pruned \subseteq DOMAIN c
              /\ \A key \in DOMAIN c : AllCapsLong(c[key].surface_forms[1]) => key \in pruned
              /\ GroupPruned(c, {key \in DOMAIN c : Len(key) = 1}, last.args.mf_unigrams)
              /\ GroupPruned(c, {key \in DOMAIN c : Len(key) > 1},
                             last.args.mf_non_unigrams)

\* the pruning dropped a multi-word candidate and kept a more frequent one
\* that is no acronym, while an acronym outside the most frequent survived
C10_Witness ==
    /\ AfterSelection /\ variant = "SEERLAB"
    /\ last.args.mf_non_unigrams = 1
    /\ LET c == BeforePruning
       IN /\ \E d \in DOMAIN c \ pruned, u \in pruned \ acronyms(c) :
                Len(d) > 1 /\ Len(u) > 1 /\ Count(c, d) < Count(c, u)
          /\ \E a \in acronyms(c), u \in pruned \ acronyms(c) :
                Len(a) > 1 /\ Len(u) > 1 /\ Count(c, a) < Count(c, u)
          /\ <<"x">> \in DOMAIN c \ pruned

Column(inst, col) == {inst[key][col] : key \in DOMAIN inst}

\* C7: after feature_scaling, in every column whose raw values differ the
\* rows with the smallest raw value hold 0, those with the largest hold 1
\* and every row holds a value in [0,1]; a column whose raw values are all
\* equal holds one constant.
C7_MinMaxScaling ==
    (AfterExtraction /\ Scaled(variant) /\ last.raised = "none")
        => /\ DOMAIN instances = DOMAIN rawInstances
           /\ \A key \in DOMAIN instances :
                 \A col \in DOMAIN instances[key] :
                    LET raw == Column(rawInstances, col)
                        x == rawInstances[key][col]
                        y == instances[key][col]
                    IN IF Cardinality(raw) = 1
                       THEN Cardinality(Column(instances, col)) = 1
                       ELSE /\ RLeq(<<0, 1>>, y) /\ RLeq(y, <<1, 1>>)
                            /\ (\A z \in raw : RLeq(x, z)) => y = <<0, 1>>
                            /\ (\A z \in raw : RLeq(z, x)) => y = <<1, 1>>

\* one column with a value strictly between its smallest and its largest,
\* beside a column of equal raw values
C7_Witness ==
    /\ AfterExtraction /\ Scaled(variant) /\ last.raised = "none"
    /\ \E key \in DOMAIN instances :
          /\ RLess(<<0, 1>>, instances[key][1]) /\ RLess(instances[key][1], <<1, 1>>)
          /\ \E col \in DOMAIN instances[key] :
                /\ Cardinality(Column(rawInstances, col)) = 1
                /\ Cardinality(DOMAIN instances) > 1

\* C8: feature_extraction called again with the same arguments, after the
\* one candidate_selection of the object, leaves the instances container
\* as the first call left it.
C8_ExtractionIdempotent ==
    [][ (/\ last.op = "feature_extraction"
         /\ last'.op = "feature_extraction"
         /\ last'.args = last.args
         /\ runs = 1)
            => instances' = instances ]_vars

\* the second of two equal feature_extraction calls has returned, with
\* scaled instances
C8_Witness ==
    /\ AfterExtraction /\ last.again /\ last.raised = "none"
    /\ runs = 1
    /\ Scaled(variant)
    /\ Cardinality(DOMAIN instances) > 1
    /\ DOMAIN instances = DOMAIN candidates

\* the candidates the pattern loop of the last WINGNUS selection started from
BeforePatterns == candidate_filtering(ngram_selection(sentences, WingnusMaxN), Punctuation)

\* the tags of the vocabulary that read NN and that read JJ or NN once cut
\* to two letters
NounTags == {"NN", "NNP"}
ModifierTags == NounTags \cup {"JJ"}

\* the tag sequences of at most four tokens that are a simplex noun phrase:
\* up to two modifiers and the head noun
SimplexNPs ==
    { <<h>> : h \in NounTags }
        \cup { <<m, h>> : m \in ModifierTags, h \in NounTags }
        \cup { <<m, n, h>> : m \in ModifierTags, n \in ModifierTags, h \in NounTags }

\* and those that are a noun phrase with an embedded prepositional phrase:
\* an optional modifier and a noun on each side of IN
EmbeddedPPs ==
    { <<g, "IN", h>> : g \in NounTags, h \in NounTags }
        \cup { <<m, g, "IN", h>> : m \in ModifierTags, g \in NounTags, h \in NounTags }
        \cup { <<g, "IN", m, h>> : g \in NounTags, m \in ModifierTags, h \in NounTags }

MatchesPattern(tags) == tags \in SimplexNPs \cup EmbeddedPPs

\* the occurrences of v whose tags match, in their order
MatchingOccurrences(v) ==
    SelectSeq([x \in 1..Len(v.pos_patterns) |-> x],
              LAMBDA x : MatchesPattern(v.pos_patterns[x]))

\* C11: after WINGNUS candidate_selection every retained occurrence matches
\* the simplex-NP or the NP-IN-NP pattern, the matching occurrences of a
\* candidate are all retained in their original order, and a candidate is
\* removed exactly when none of its occurrences matches.
C11_PosOccurrencePruning ==
    (AfterSelection /\ variant = "WINGNUS")
        => /\ DOMAIN candidates \subseteq DOMAIN BeforePatterns
           /\ \A key \in DOMAIN BeforePatterns :
                 LET b == BeforePatterns[key]
                     idx == MatchingOccurrences(b)
                 IN /\ key \in DOMAIN candidates <=> idx # <<>>
                    /\ key \in DOMAIN candidates =>
                          LET v == candidates[key]
                          IN /\ Len(v.pos_patterns) >= 1
                             /\ \A x \in 1..Len(v.pos_patterns) :
                                   MatchesPattern(v.pos_patterns[x])
                             /\ v.surface_forms =
                                   [x \in 1..Len(idx) |-> b.surface_forms[idx[x]]]
                             /\ v.offsets = [x \in 1..Len(idx) |-> b.offsets[idx[x]]]
                             /\ v.pos_patterns =
                                   [x \in 1..Len(idx) |-> b.pos_patterns[idx[x]]]

\* a candidate that lost an occurrence between two it keeps, a candidate
\* kept for the NP-IN-NP pattern, one kept for a JJ modifier, and a removed one
C11_Witness ==
    /\ AfterSelection /\ variant = "WINGNUS"
    /\ \E key \in DOMAIN candidates :
          LET b == BeforePatterns[key]
          IN /\ Len(candidates[key].offsets) >= 2
             /\ \E x \in 2..(Len(b.offsets) - 1) :
                   /\ ~MatchesPattern(b.pos_patterns[x])
                   /\ candidates[key].offsets[1] < b.offsets[x]
                   /\ b.offsets[x] < candidates[key].offsets[2]
    /\ \E key \in DOMAIN candidates : candidates[key].pos_patterns[1] \in EmbeddedPPs
    /\ \E key \in DOMAIN BeforePatterns : key \notin DOMAIN candidates

\* a candidate kept for a JJ modifier, while the adjective alone is removed
C11_WitnessModifier ==
    /\ AfterSelection /\ variant = "WINGNUS"
    /\ <<"x", "model">> \in DOMAIN candidates
    /\ <<"x">> \in DOMAIN BeforePatterns \ DOMAIN candidates

\* the rows feature_extraction computed, before any scaling
RawRows == IF Scaled(variant) THEN rawInstances ELSE instances

\* the column of tf*idf in a row of the variant
TfIdfColumn == IF variant = "SEERLAB" THEN 5 ELSE 1

\* the document frequency of a key in the table of the last call
DfRaw(key) == IF key \in DOMAIN last.args.df THEN last.args.df[key] ELSE 0

\* the effective document frequency: one more than the raw one; in training
\* the raw one itself, except that an unseen key still counts once
EffectiveDf(raw, training) == IF training /\ raw >= 1 THEN raw ELSE raw + 1

\* C12: feature_extraction of every variant computes the tf*idf of a
\* candidate from the effective document frequency 1 + df_raw, decremented
\* by one in training unless it is 1; it is at least 1, and SEERLAB stores it
\* as its DF feature.
C12_EffectiveDf ==
    AfterExtraction
        => \A key \in DOMAIN candidates :
              LET eff == EffectiveDf(DfRaw(key), last.args.training)
                  tf == Len(candidates[key].surface_forms)
                  row == RawRows[key]
              IN /\ key \in DOMAIN RawRows
                 /\ row[TfIdfColumn] = RMul(Rat(tf, 1), idf(last.args.N, eff))
                 /\ RLeq(row[TfIdfColumn], RMul(Rat(tf, 1), idf(last.args.N, 1)))
                 /\ variant = "SEERLAB" => (row[4] = Rat(eff, 1) /\ row[4][1] >= 1)

\* a training call on candidates of raw document frequency 0, 1 and 2: the
\* first two get the same tf*idf per occurrence, the third a smaller one
C12_Witness ==
    /\ AfterExtraction /\ last.args.training /\ last.raised = "none"
    /\ \E a \in DOMAIN candidates, b \in DOMAIN candidates, c \in DOMAIN candidates :
          /\ DfRaw(a) = 0 /\ DfRaw(b) = 1 /\ DfRaw(c) = 2
          /\ Len(candidates[a].surface_forms) = 1
          /\ Len(candidates[b].surface_forms) = 1
          /\ Len(candidates[c].surface_forms) = 1
          /\ RawRows[a][TfIdfColumn] = RawRows[b][TfIdfColumn]
          /\ RLess(RawRows[c][TfIdfColumn], RawRows[b][TfIdfColumn])

\* the key of a span the gazetteer scan of the last selection added
ScannedKey(x) == SpanKey(scanned[x].i, scanned[x].j, scanned[x].k)

\* the spans of the document that read key: sentence and 0-based start
OccurrencesOf(key) ==
    { <<i, j>> \in (1..Len(sentences)) \X (0..TotalLen(sentences)) :
        /\ j + Len(key) <= Len(sentences[i])
        /\ SpanKey(i, j, j + Len(key)) = key }

\* C13: a candidate created by the SEERLAB gazetteer scan has exactly one
\* occurrence after candidate_selection, whatever the number of spans of
\* the document that read its key: the scan adds a key once, and the TF
\* feature feature_extraction then computes for it is 1.
C13_GazetteerSingleOccurrence ==
    (variant = "SEERLAB" /\ runs >= 1)
        => \A x \in DOMAIN scanned :
              LET key == ScannedKey(x)
              IN /\ key \notin pruned
                 /\ key \in DOMAIN candidates
                 /\ Len(candidates[key].surface_forms) = 1
                 /\ Len(candidates[key].offsets) = 1
                 /\ Len(candidates[key].pos_patterns) = 1
                 /\ \A y \in DOMAIN scanned : ScannedKey(y) = key => y = x
                 /\ (AfterExtraction /\ stage = "FeaturesExtracted")
                        => instances[key][3] = <<1, 1>>

\* feature_extraction after a scan that added a key the document reads at
\* two places or more
C13_Witness ==
    /\ variant = "SEERLAB" /\ AfterExtraction /\ stage = "FeaturesExtracted"
    /\ \E x \in DOMAIN scanned :
          /\ Cardinality(OccurrencesOf(ScannedKey(x))) >= 2
          /\ instances[ScannedKey(x)][3] = <<1, 1>>

====
